---- MODULE Spec2Model ----
(***************************************************************************)
(* Model of temba/triggers/models.py: the Trigger table, its dispatch      *)
(* entry points (find_and_handle, find_flow_for_inbound_call,              *)
(* catch_triggers, fire), the bulk archive / restore actions and the       *)
(* import / export of triggers.                                            *)
(***************************************************************************)
EXTENDS Integers, Sequences, FiniteSets, TLC

(* ------------------------------ bounds --------------------------------- *)
\* rows the trigger table may hold
MaxTriggers == 3
\* rows the trigger table holds initially
MaxInit == 2
\* longest list of triggers in an import document
MaxDocLen == 1
\* last clock value
MaxTime == 2
\* cap on trigger_count
MaxCount == 1
\* longest message text, in characters
MaxText == 2
\* rows the contact-group table may hold
MaxGroups == 3
\* the largest trigger_count where successive fires of one trigger are followed
MaxFires == 2

(* --------------------------- trigger types ------------------------------ *)
KEYWORD_TRIGGER == "K"
SCHEDULE_TRIGGER == "S"
MISSED_CALL_TRIGGER == "M"
CATCH_ALL_TRIGGER == "C"
FOLLOW_TRIGGER == "F"
INBOUND_CALL_TRIGGER == "V"

TRIGGER_TYPES ==
    {KEYWORD_TRIGGER, SCHEDULE_TRIGGER, INBOUND_CALL_TRIGGER,
     MISSED_CALL_TRIGGER, CATCH_ALL_TRIGGER, FOLLOW_TRIGGER}

(* ------------------- collaborating tables (read only) ------------------- *)
\* NULL of a nullable DateTimeField / foreign key; the empty tuple is the
\* NULL (or empty) keyword
NoTime == 0
NoChannel == 0
NoKeyword == << >>

Orgs == {"o1", "o2"}

\* Flow rows: this file reads is_active, is_archived, ignore_triggers and org
\* of a flow and never writes them
Flows ==
    [f1 |-> [org |-> "o1", is_active |-> TRUE,  is_archived |-> FALSE, ignore_triggers |-> FALSE],
     f2 |-> [org |-> "o1", is_active |-> TRUE,  is_archived |-> TRUE,  ignore_triggers |-> FALSE],
     f3 |-> [org |-> "o1", is_active |-> TRUE,  is_archived |-> FALSE, ignore_triggers |-> TRUE],
     f4 |-> [org |-> "o2", is_active |-> TRUE,  is_archived |-> FALSE, ignore_triggers |-> FALSE]]

FlowIds == DOMAIN Flows

\* Contact rows: org and the pks of the groups the contact is in
Contacts ==
    [c1 |-> [org |-> "o1", groups |-> {1}],
     c3 |-> [org |-> "o1", groups |-> {1}],
     c4 |-> [org |-> "o1", groups |-> {}],
     c5 |-> [org |-> "o2", groups |-> {}]]

ContactIds == DOMAIN Contacts

\* FlowRun rows (pk is the position): c3's newest active run ignores triggers;
\* c4 has an older active run that ignores triggers and a newer one that does not
FlowRuns ==
    << [contact |-> "c3", flow |-> "f1", is_active |-> TRUE, completed |-> FALSE, created_on |-> 1],
       [contact |-> "c3", flow |-> "f3", is_active |-> TRUE, completed |-> FALSE, created_on |-> 2],
       [contact |-> "c4", flow |-> "f3", is_active |-> TRUE, completed |-> FALSE, created_on |-> 1],
       [contact |-> "c4", flow |-> "f1", is_active |-> TRUE, completed |-> FALSE, created_on |-> 2] >>

\* channels of each org (org.channels.all())
OrgChannels == [o \in Orgs |-> IF o = "o1" THEN {1, 2} ELSE {}]

(* ------------------------------- state ---------------------------------- *)
VARIABLES
    triggers,   \* the Trigger table: a sequence of rows, pk = position
    groups,     \* the ContactGroup table: a sequence of rows, pk = position
    now,        \* the clock read by timezone.now() and by auto_now
    last,       \* the last completed call: what it was given and what it did
    pc,         \* position of each concurrent call (race specifications)
    local       \* in-memory objects of each concurrent call

vars == <<triggers, groups, now, last, pc, local>>

Pks(db) == 1..Len(db)

\* a freshly constructed Trigger: the field defaults of the model class
NewTrigger(org, trigger_type, keyword, flow, grps, contacts, channel, is_active, t) ==
    [org |-> org, trigger_type |-> trigger_type, keyword |-> keyword, flow |-> flow,
     groups |-> grps, contacts |-> contacts, channel |-> channel,
     is_active |-> is_active, is_archived |-> FALSE,
     last_triggered |-> NoTime, trigger_count |-> 0, modified_on |-> t]

\* Model.save(): writes every field of the in-memory object to its row;
\* modified_on is auto_now
Save(db, pk, obj) == [db EXCEPT ![pk] = [obj EXCEPT !.modified_on = now]]

\* QuerySet.update(is_archived=True) on the rows whose pk is in ids
UpdateArchived(db, ids) ==
    [pk \in Pks(db) |-> IF pk \in ids THEN [db[pk] EXCEPT !.is_archived = TRUE] ELSE db[pk]]

NoContact == "none"

\* what a call reports in `last`: the call, its arguments (ids: the triggers
\* given, for an import those it un-archived or created), what it returned,
\* the triggers it stamped, the trigger_count the stamped trigger had, the
\* flows it started and the triggers of ids that were archived when it began; for an import that did not raise also whether
\* the sites matched, the trigger the document was exported from and the
\* triggers created
NoReport ==
    [op |-> "init", ids |-> {}, contact |-> NoContact, keyword |-> NoKeyword,
     trigger_type |-> "", channel |-> NoChannel, ret |-> "none",
     fired |-> {}, count |-> 0, started |-> {}, before |-> {}, created |-> {},
     exported |-> 0, site_matches |-> FALSE]

\* pks of the rows that are not archived
Unarchived(db) == {pk \in Pks(db) : ~db[pk].is_archived}

(* ------------------------- apply_action_archive ------------------------- *)
apply_action_archive(ids) ==
    /\ triggers' = UpdateArchived(triggers, ids)
    /\ last' = [NoReport EXCEPT !.op = "archive", !.ret = "ids"]
    /\ UNCHANGED <<groups, now, pc, local>>

(* ------------------------- apply_action_restore ------------------------- *)
\* mutant of SameKeywordTriggers: the org is not looked at
SameKeywordTriggersOfAnyOrg(db, obj) ==
    {pk \in Pks(db) : /\ db[pk].keyword = obj.keyword
                      /\ ~db[pk].is_archived
                      /\ db[pk].is_active
                      /\ db[pk].trigger_type = KEYWORD_TRIGGER}

\* same_keyword_triggers of the in-memory trigger obj (lines 267-268)
SameKeywordTriggers(db, obj) ==
    {pk \in Pks(db) : /\ db[pk].org = obj.org
                      /\ db[pk].keyword = obj.keyword
                      /\ ~db[pk].is_archived
                      /\ db[pk].is_active
                      /\ db[pk].trigger_type = KEYWORD_TRIGGER}

\* mutant of RestoreOne: the triggers with the same keyword are left as they are
RestoreOneKeepsOthers(db, pk, obj) == Save(db, pk, [obj EXCEPT !.is_archived = FALSE])

\* one pass of the loop body (lines 266-273) for the in-memory trigger obj
RestoreOne(db, pk, obj) ==
    LET archived == IF obj.keyword # NoKeyword
                    THEN UpdateArchived(db, SameKeywordTriggers(db, obj))
                    ELSE db
    IN  Save(archived, pk, [obj EXCEPT !.is_archived = FALSE])

\* the loop over remaining_triggers (line 264): order is the order the
\* unordered queryset yields its rows in, snap the rows as fetched
RECURSIVE RestoreRemaining(_, _, _)
RestoreRemaining(db, order, snap) ==
    IF Len(order) = 0 THEN db
    ELSE RestoreRemaining(RestoreOne(db, Head(order), snap[Head(order)]), Tail(order), snap)

\* mutant of SortsBefore: ascending order, order_by('last_triggered', 'modified_on')
SortsBeforeAscending(a, b) ==
    \/ a.last_triggered < b.last_triggered
    \/ a.last_triggered = b.last_triggered /\ a.modified_on <= b.modified_on

\* order_by('-last_triggered', '-modified_on'): a sorts no later than b.
\* PostgreSQL puts NULL first in a descending order
SortsBefore(a, b) ==
    \/ a.last_triggered = NoTime /\ b.last_triggered # NoTime
    \/ /\ (a.last_triggered = NoTime) = (b.last_triggered = NoTime)
       /\ \/ a.last_triggered > b.last_triggered
          \/ a.last_triggered = b.last_triggered /\ a.modified_on >= b.modified_on

\* the rows qs[0] may be: those no other row of the queryset sorts strictly before
FirstOrdered(db, ids) ==
    {pk \in ids : \A o \in ids : SortsBefore(db[pk], db[o])}

\* lines 275-281 and 283-289: archive every active trigger of the type in the
\* org of the first one, then un-archive the first one
RestoreLatest(db, ids, trigger_type, first) ==
    IF ids = {} THEN db
    ELSE Save(UpdateArchived(db, {pk \in Pks(db) : /\ db[pk].org = db[first].org
                                                  /\ db[pk].trigger_type = trigger_type
                                                  /\ db[pk].is_active}),
              first, [db[first] EXCEPT !.is_archived = FALSE])

OfType(db, ids, trigger_type) == {pk \in ids : db[pk].trigger_type = trigger_type}

\* all orders a set of pks can be yielded in
Orders(S) == {s \in [1..Cardinality(S) -> S] : \A i, j \in 1..Cardinality(S) : i # j => s[i] # s[j]}

apply_action_restore(ids) ==
    LET m_ids == OfType(triggers, ids, MISSED_CALL_TRIGGER)
        c_ids == OfType(triggers, ids, CATCH_ALL_TRIGGER)
        remaining == (ids \ m_ids) \ c_ids
    IN  \E order \in Orders(remaining) :
        LET db1 == RestoreRemaining(triggers, order, triggers)
        IN  \E m \in IF m_ids = {} THEN {0} ELSE FirstOrdered(db1, m_ids) :
            LET db2 == RestoreLatest(db1, m_ids, MISSED_CALL_TRIGGER, m)
            IN  \E c \in IF c_ids = {} THEN {0} ELSE FirstOrdered(db2, c_ids) :
                /\ triggers' = RestoreLatest(db2, c_ids, CATCH_ALL_TRIGGER, c)
                /\ last' = [NoReport EXCEPT !.op = "restore", !.ids = ids, !.ret = "ids",
                                             !.before = {pk \in ids : triggers[pk].is_archived}]
                /\ UNCHANGED <<groups, now, pc, local>>

(* ---------------------------- KeywordResolver --------------------------- *)
\* the characters of a message text; "j" and "J" are word characters (\w)
Alphabet == {"J", "?", " "}
IsWord(ch) == ch \in {"j", "J"}
IsSpace(ch) == ch = " "
LowerChar(ch) == IF ch = "J" THEN "j" ELSE ch
\* unicode.lower()
Lower(w) == [i \in 1..Len(w) |-> LowerChar(w[i])]

\* unicode.strip()
RECURSIVE LStrip(_)
LStrip(s) == IF Len(s) > 0 /\ IsSpace(Head(s)) THEN LStrip(Tail(s)) ELSE s
RECURSIVE RStrip(_)
RStrip(s) ==
    IF Len(s) > 0 /\ IsSpace(s[Len(s)]) THEN RStrip(SubSeq(s, 1, Len(s) - 1)) ELSE s
Strip(s) == RStrip(LStrip(s))

RECURSIVE DropNonWord(_)
DropNonWord(s) == IF Len(s) > 0 /\ ~IsWord(Head(s)) THEN DropNonWord(Tail(s)) ELSE s

\* re.split(r"[\W]+", s): the pieces between runs of non-word characters,
\* empty pieces at either end included
RECURSIVE SplitWords(_, _, _)
SplitWords(s, cur, acc) ==
    IF Len(s) = 0 THEN Append(acc, cur)
    ELSE IF IsWord(Head(s)) THEN SplitWords(Tail(s), Append(cur, Head(s)), acc)
    ELSE SplitWords(DropNonWord(s), << >>, Append(acc, cur))

\* lines 184-185: drop the leading empty words
RECURSIVE DropEmpty(_)
DropEmpty(words) ==
    IF Len(words) > 0 /\ Len(Head(words)) = 0 THEN DropEmpty(Tail(words)) ELSE words

\* lines 182-193: the keyword of a text, NoKeyword when it has none
FirstKeyword(text) ==
    LET words == DropEmpty(SplitWords(Strip(text), << >>, << >>))
    IN  IF Len(words) = 0 THEN NoKeyword ELSE Lower(Head(words))

(* ------------------------------ matching -------------------------------- *)
FlowOk(f) == Flows[f].is_active /\ ~Flows[f].is_archived

\* lines 195-196: the contact's active runs in active, unarchived flows,
\* newest first; the first of them, 0 when there is none
ActiveRuns(contact) ==
    {r \in DOMAIN FlowRuns : /\ FlowRuns[r].is_active
                             /\ FlowRuns[r].contact = contact
                             /\ FlowOk(FlowRuns[r].flow)}

ActiveRun(contact) ==
    LET runs == ActiveRuns(contact)
    IN  IF runs = {} THEN 0
        ELSE CHOOSE r \in runs : \A o \in runs :
                \/ FlowRuns[r].created_on > FlowRuns[o].created_on
                \/ FlowRuns[r].created_on = FlowRuns[o].created_on /\ r >= o

\* line 198
IgnoresTriggers(contact) ==
    LET r == ActiveRun(contact)
    IN  /\ r # 0
        /\ Flows[FlowRuns[r].flow].ignore_triggers
        /\ ~FlowRuns[r].completed

\* the filters shared by the queries of lines 204-205 and 209-210
KeywordCandidates(db, org, keyword) ==
    {pk \in Pks(db) : /\ ~db[pk].is_archived
                      /\ db[pk].is_active
                      /\ db[pk].org = org
                      /\ db[pk].keyword # NoKeyword
                      /\ Lower(db[pk].keyword) = Lower(keyword)
                      /\ FlowOk(db[pk].flow)}

\* the filters shared by the queries of lines 234-235 and 239-240
CallCandidates(db, org) ==
    {pk \in Pks(db) : /\ ~db[pk].is_archived
                      /\ db[pk].is_active
                      /\ db[pk].org = org
                      /\ db[pk].trigger_type = INBOUND_CALL_TRIGGER
                      /\ FlowOk(db[pk].flow)}

\* a < b for group names
NameLess(a, b) ==
    LET rank == [n \in {"Alpha", "Beta", "Gamma"} |->
                    IF n = "Alpha" THEN 1 ELSE IF n = "Beta" THEN 2 ELSE 3]
    IN  rank[a] < rank[b]

\* groups__in=groups_ids ... order_by('groups__name'): the candidates joined
\* with their groups among groups_ids; [0] is a trigger of a row whose group
\* name no other row's name precedes
GroupMatches(db, grps, cands, groups_ids) ==
    LET rows == {r \in cands \X groups_ids : r[2] \in db[r[1]].groups}
    IN  {r[1] : r \in {x \in rows : \A o \in rows : ~NameLess(grps[o[2]].name, grps[x[2]].name)}}

\* groups=None: the candidates with no group, in no order
NoGroupMatches(db, cands) == {pk \in cands : db[pk].groups = {}}

\* mutant of Matching: the triggers without groups are looked for first
MatchingNoGroupFirst(db, grps, cands, groups_ids) ==
    IF NoGroupMatches(db, cands) # {}
    THEN NoGroupMatches(db, cands)
    ELSE GroupMatches(db, grps, cands, groups_ids)

\* the triggers matching[0] may be: phase A, else phase B
Matching(db, grps, cands, groups_ids) ==
    IF GroupMatches(db, grps, cands, groups_ids) # {}
    THEN GroupMatches(db, grps, cands, groups_ids)
    ELSE NoGroupMatches(db, cands)

\* mutant of Stamp: trigger_count is left as it was
StampWithoutCount(db, pk, obj, t) == Save(db, pk, [obj EXCEPT !.last_triggered = t])

\* last_triggered = t; trigger_count += 1; save()
Stamp(db, pk, obj, t) ==
    Save(db, pk, [obj EXCEPT !.last_triggered = t, !.trigger_count = obj.trigger_count + 1])

(* ---------------------------- find_and_handle --------------------------- *)
find_and_handle(text, contact, created_on) ==
    LET keyword == FirstKeyword(text)
        org == Contacts[contact].org
        matching == Matching(triggers, groups, KeywordCandidates(triggers, org, keyword),
                             Contacts[contact].groups)
        report == [NoReport EXCEPT !.op = "find_and_handle", !.contact = contact,
                                   !.keyword = keyword]
    IN  IF keyword = NoKeyword \/ IgnoresTriggers(contact) \/ matching = {}
        THEN /\ last' = [report EXCEPT !.ret = "False"]
             /\ UNCHANGED <<triggers, groups, now, pc, local>>
        ELSE \E pk \in matching :
             /\ triggers' = Stamp(triggers, pk, triggers[pk], created_on)
             /\ last' = [report EXCEPT !.ret = "True", !.fired = {pk},
                                       !.count = triggers[pk].trigger_count,
                                       !.started = {<<pk, triggers[pk].flow>>}]
             /\ UNCHANGED <<groups, now, pc, local>>

(* ----------------------- find_flow_for_inbound_call --------------------- *)
find_flow_for_inbound_call(contact) ==
    LET org == Contacts[contact].org
        matching == Matching(triggers, groups, CallCandidates(triggers, org),
                             Contacts[contact].groups)
        report == [NoReport EXCEPT !.op = "find_flow_for_inbound_call", !.contact = contact,
                                   !.trigger_type = INBOUND_CALL_TRIGGER]
    IN  IF matching = {}
        THEN /\ last' = [report EXCEPT !.ret = "None"]
             /\ UNCHANGED <<triggers, groups, now, pc, local>>
        ELSE \E pk \in matching :
             /\ triggers' = Stamp(triggers, pk, triggers[pk], now)
             /\ last' = [report EXCEPT !.ret = "flow", !.fired = {pk},
                                       !.count = triggers[pk].trigger_count]
             /\ UNCHANGED <<groups, now, pc, local>>

(* ----------------------------- catch_triggers --------------------------- *)
\* line 153
get_triggers_of_type(db, org, trigger_type) ==
    {pk \in Pks(db) : /\ db[pk].org = org
                      /\ db[pk].trigger_type = trigger_type
                      /\ db[pk].is_active
                      /\ ~db[pk].is_archived}

\* lines 169-172
CaughtTriggers(db, org, trigger_type, channel_id) ==
    IF channel_id # NoChannel
    THEN {pk \in get_triggers_of_type(db, org, trigger_type) : db[pk].channel = channel_id}
    ELSE get_triggers_of_type(db, org, trigger_type)

\* entity is a Msg, a Call or a Contact of `contact`
catch_triggers(contact, trigger_type, channel_id) ==
    LET caught == CaughtTriggers(triggers, Contacts[contact].org, trigger_type, channel_id)
    IN  /\ last' = [NoReport EXCEPT !.op = "catch_triggers", !.contact = contact,
                                    !.trigger_type = trigger_type, !.channel = channel_id,
                                    !.ret = IF caught # {} THEN "True" ELSE "False",
                                    !.started = {<<pk, triggers[pk].flow>> : pk \in caught}]
        /\ UNCHANGED <<triggers, groups, now, pc, local>>

(* ---------------------------------- fire -------------------------------- *)
\* mutant of Fires: a trigger without groups and contacts is fired too
FiresWithoutTargets(obj) ==
    /\ ~(obj.is_archived \/ ~obj.is_active)
    /\ OrgChannels[Flows[obj.flow].org] # {}

\* lines 294-304: whether fire() on the in-memory trigger obj stamps and starts
Fires(obj) ==
    /\ ~(obj.is_archived \/ ~obj.is_active)
    /\ OrgChannels[Flows[obj.flow].org] # {}
    /\ (obj.groups # {} \/ obj.contacts # {})

fire(pk) ==
    LET obj == triggers[pk]
        report == [NoReport EXCEPT !.op = "fire", !.ids = {pk}]
    IN  IF Fires(obj)
        THEN /\ triggers' = Stamp(triggers, pk, obj, now)
             /\ last' = [report EXCEPT !.ret = "started", !.fired = {pk},
                                       !.count = obj.trigger_count,
                                       !.started = {<<pk, obj.flow>>}]
             /\ UNCHANGED <<groups, now, pc, local>>
        ELSE /\ last' = [report EXCEPT
                            !.ret = IF obj.is_archived \/ ~obj.is_active
                                       \/ OrgChannels[Flows[obj.flow].org] = {}
                                    THEN "None" ELSE "False"]
             /\ UNCHANGED <<triggers, groups, now, pc, local>>

(* --------------------------------- as_json ------------------------------ *)
\* lines 82-86; order is the order self.groups.all() yields the groups in.
\* The flow is exported as its pk (its name is never read back)
as_json(db, grps, pk, order) ==
    [trigger_type |-> db[pk].trigger_type,
     keyword |-> db[pk].keyword,
     flow |-> db[pk].flow,
     groups |-> [i \in 1..Len(order) |-> [id |-> order[i], name |-> grps[order[i]].name]],
     channel |-> db[pk].channel]

(* ----------------------------- import_triggers -------------------------- *)
\* from temba.orgs.models import EARLIEST_IMPORT_VERSION
EARLIEST_IMPORT_VERSION == 3

NoSite == ""

Min(S) == CHOOSE x \in S : \A y \in S : x <= y

\* lines 105-114: the pk of the group of a group_spec, Len(grps) + 1 when it
\* has to be created
GroupPk(grps, org, group_spec, site_matches) ==
    LET by_id == IF site_matches
                 THEN {g \in Pks(grps) : grps[g].org = org /\ g = group_spec.id}
                 ELSE {}
        by_name == {g \in Pks(grps) : grps[g].org = org /\ grps[g].name = group_spec.name}
    IN  IF by_id # {} THEN Min(by_id)
        ELSE IF by_name # {} THEN Min(by_name)
        ELSE Len(grps) + 1

\* lines 113-118: the group table once the group is created and active
GroupsWith(grps, org, group_spec, g) ==
    IF g > Len(grps)
    THEN Append(grps, [org |-> org, name |-> group_spec.name, is_active |-> TRUE])
    ELSE [grps EXCEPT ![g].is_active = TRUE]

\* lines 102-120 for the group_specs of one trigger_spec: the group table
\* afterwards and the pks resolved
RECURSIVE ResolveGroups(_, _, _, _, _)
ResolveGroups(grps, org, group_specs, site_matches, found) ==
    IF Len(group_specs) = 0 THEN [groups |-> grps, pks |-> found]
    ELSE LET g == GroupPk(grps, org, Head(group_specs), site_matches)
         IN  ResolveGroups(GroupsWith(grps, org, Head(group_specs), g), org,
                           Tail(group_specs), site_matches, found \cup {g})

\* mutant of ImportMatches: the keyword filter is applied to a trigger_spec
\* without keyword too
ImportMatchesKeywordAlways(db, org, trigger_spec, group_pks) ==
    {pk \in Pks(db) :
        /\ db[pk].org = org
        /\ db[pk].trigger_type = trigger_spec.trigger_type
        /\ db[pk].keyword # NoKeyword
        /\ Lower(db[pk].keyword) = Lower(trigger_spec.keyword)
        /\ (group_pks # {} => db[pk].groups \cap group_pks # {})}

\* lines 125-133: the existing triggers the trigger_spec matches
ImportMatches(db, org, trigger_spec, group_pks) ==
    {pk \in Pks(db) :
        /\ db[pk].org = org
        /\ db[pk].trigger_type = trigger_spec.trigger_type
        /\ (trigger_spec.keyword # NoKeyword =>
                /\ db[pk].keyword # NoKeyword
                /\ Lower(db[pk].keyword) = Lower(trigger_spec.keyword))
        /\ (group_pks # {} => db[pk].groups \cap group_pks # {})}

\* lines 99-148 for one trigger_spec, on the state st = [triggers, groups,
\* touched, ret]: touched are the pks un-archived or created so far
ImportOne(st, org, trigger_spec, site_matches) ==
    LET res == ResolveGroups(st.groups, org, trigger_spec.groups, site_matches, {})
        flow_found == /\ trigger_spec.flow \in FlowIds
                      /\ Flows[trigger_spec.flow].org = org
        matches == ImportMatches(st.triggers, org, trigger_spec, res.pks)
    IN  IF ~flow_found
        THEN [st EXCEPT !.groups = res.groups, !.ret = "DoesNotExist"]
        ELSE IF matches # {}
        THEN LET pk == Min(matches)
             IN  [st EXCEPT !.groups = res.groups,
                            !.triggers = Save(st.triggers, pk,
                                              [st.triggers[pk] EXCEPT !.is_archived = FALSE,
                                                                      !.flow = trigger_spec.flow]),
                            !.touched = st.touched \cup {pk}]
        ELSE IF trigger_spec.channel # NoChannel
        \* Trigger.objects.create(channel=<pk>): the foreign key takes a
        \* Channel instance only
        THEN [st EXCEPT !.groups = res.groups, !.ret = "ValueError"]
        ELSE [st EXCEPT !.groups = res.groups,
                        !.triggers = Append(st.triggers,
                                            NewTrigger(org, trigger_spec.trigger_type,
                                                       trigger_spec.keyword, trigger_spec.flow,
                                                       res.pks, {}, NoChannel, TRUE, now)),
                        !.touched = st.touched \cup {Len(st.triggers) + 1}]

\* the loop of line 99; an exception ends it
RECURSIVE ImportAll(_, _, _, _)
ImportAll(st, org, trigger_specs, site_matches) ==
    IF Len(trigger_specs) = 0 \/ st.ret # "ok" THEN st
    ELSE ImportAll(ImportOne(st, org, Head(trigger_specs), site_matches), org,
                   Tail(trigger_specs), site_matches)

\* exported_json.get('version', 0) of a document without version
NoVersion == 0

\* mutant of UnknownVersion: every version is imported
UnknownVersionNever(exported_json) == FALSE

\* line 94
UnknownVersion(exported_json) == exported_json.version < EARLIEST_IMPORT_VERSION

\* exported_json = [version, site, triggers]; exported is the pk of the trigger
\* the document was exported from, 0 for a document written by hand
import_triggers(exported_json, org, site, exported) ==
    LET st0 == [triggers |-> triggers, groups |-> groups, touched |-> {}, ret |-> "ok"]
        st == IF UnknownVersion(exported_json)
              THEN [st0 EXCEPT !.ret = "Unknown version"]
              ELSE ImportAll(st0, org, exported_json.triggers,
                             site # NoSite /\ site = exported_json.site)
    IN  /\ Len(st.triggers) <= MaxTriggers
        /\ Len(st.groups) <= MaxGroups
        /\ triggers' = st.triggers
        /\ groups' = st.groups
        /\ last' = IF st.ret # "ok"
                   THEN [NoReport EXCEPT !.op = "import", !.ids = st.touched, !.ret = st.ret]
                   ELSE [NoReport EXCEPT
                            !.op = "import", !.ids = st.touched, !.ret = st.ret,
                            !.before = {pk \in st.touched \cap Pks(triggers) :
                                            triggers[pk].is_archived},
                            !.created = st.touched \ Pks(triggers),
                            !.exported = exported,
                            !.site_matches = (site # NoSite /\ site = exported_json.site)]
        /\ UNCHANGED <<now, pc, local>>

(* ------------------------------ environment ----------------------------- *)
\* trigger_specs of documents written by hand
CraftedSpecs ==
    {[trigger_type |-> KEYWORD_TRIGGER, keyword |-> <<"J">>, flow |-> "f1",
      groups |-> << >>, channel |-> NoChannel],
     [trigger_type |-> MISSED_CALL_TRIGGER, keyword |-> <<"j">>, flow |-> "f1",
      groups |-> << >>, channel |-> NoChannel],
     [trigger_type |-> MISSED_CALL_TRIGGER, keyword |-> NoKeyword, flow |-> "f1",
      groups |-> <<[id |-> 2, name |-> "Alpha"]>>, channel |-> NoChannel],
     [trigger_type |-> FOLLOW_TRIGGER, keyword |-> NoKeyword, flow |-> "f4",
      groups |-> << >>, channel |-> 1]}

Sites == {"here", "there"}
Versions == {NoVersion, EARLIEST_IMPORT_VERSION - 1, EARLIEST_IMPORT_VERSION}

SeqsUpTo(S, n) == UNION {[1..k -> S] : k \in 0..n}

CraftedDocs ==
    [version : Versions, site : {"here"}, triggers : SeqsUpTo(CraftedSpecs, MaxDocLen)]

Texts == SeqsUpTo(Alphabet, MaxText)

\* triggers as plain creation leaves them: the rows the bulk actions and the
\* import are run on
Seeds ==
    {NewTrigger("o1", KEYWORD_TRIGGER, <<"j">>, "f1", {}, {"c1"}, NoChannel, TRUE, 1),
     NewTrigger("o1", KEYWORD_TRIGGER, <<"j">>, "f1", {1}, {}, NoChannel, TRUE, 1),
     NewTrigger("o1", MISSED_CALL_TRIGGER, NoKeyword, "f1", {}, {"c1"}, NoChannel, TRUE, 1),
     NewTrigger("o1", CATCH_ALL_TRIGGER, NoKeyword, "f1", {}, {"c1"}, NoChannel, TRUE, 1),
     NewTrigger("o2", KEYWORD_TRIGGER, <<"j">>, "f4", {}, {}, NoChannel, TRUE, 1)}

\* the rows restore picks the latest fired of
LatestSeeds ==
    {NewTrigger("o1", MISSED_CALL_TRIGGER, NoKeyword, "f1", {}, {"c1"}, NoChannel, TRUE, 1),
     NewTrigger("o1", MISSED_CALL_TRIGGER, NoKeyword, "f1", {}, {}, NoChannel, FALSE, 1),
     NewTrigger("o1", CATCH_ALL_TRIGGER, NoKeyword, "f1", {}, {"c1"}, NoChannel, TRUE, 1)}

\* the rows the dispatch entry points are run on
DispatchSeeds ==
    {NewTrigger("o1", KEYWORD_TRIGGER, <<"j">>, "f1", {}, {}, NoChannel, TRUE, 1),
     NewTrigger("o1", KEYWORD_TRIGGER, <<"j">>, "f1", {1}, {}, NoChannel, TRUE, 1),
     NewTrigger("o1", KEYWORD_TRIGGER, <<"J">>, "f2", {}, {"c1"}, NoChannel, TRUE, 1),
     NewTrigger("o1", KEYWORD_TRIGGER, <<"j">>, "f1", {}, {}, NoChannel, FALSE, 1),
     NewTrigger("o1", MISSED_CALL_TRIGGER, NoKeyword, "f2", {}, {}, 1, TRUE, 1),
     NewTrigger("o1", MISSED_CALL_TRIGGER, <<"j">>, "f1", {}, {}, NoChannel, TRUE, 1),
     NewTrigger("o1", INBOUND_CALL_TRIGGER, NoKeyword, "f1", {1}, {}, NoChannel, TRUE, 1),
     NewTrigger("o1", INBOUND_CALL_TRIGGER, NoKeyword, "f1", {}, {}, NoChannel, TRUE, 1),
     NewTrigger("o2", KEYWORD_TRIGGER, <<"j">>, "f4", {}, {"c5"}, NoChannel, TRUE, 1)}

InitGroups ==
    << [org |-> "o1", name |-> "Alpha", is_active |-> TRUE],
       [org |-> "o1", name |-> "Beta", is_active |-> FALSE] >>

InitWith(seeds, n) ==
    /\ triggers \in SeqsUpTo(seeds, n)
    /\ groups = InitGroups
    /\ now = 1
    /\ last = NoReport
    /\ pc = << >>
    /\ local = << >>

Init == InitWith(Seeds, MaxInit)

InitLatest == InitWith(LatestSeeds, MaxTriggers)

InitDispatch == InitWith(DispatchSeeds, MaxInit)

\* the bound on trigger_count, on the state a step leads to
CountsCapped == \A pk \in Pks(triggers') : triggers'[pk].trigger_count <= MaxCount

\* the clock advances
Tick ==
    /\ now < MaxTime
    /\ now' = now + 1
    /\ UNCHANGED <<triggers, groups, last, pc, local>>

Archive == \E ids \in SUBSET Pks(triggers) : apply_action_archive(ids)

Restore == \E ids \in SUBSET Pks(triggers) : apply_action_restore(ids)

ImportCrafted ==
    \E doc \in CraftedDocs, org \in Orgs, site \in {NoSite, "here"} :
        import_triggers(doc, org, site, 0)

ImportExported ==
    \E pk \in Pks(triggers), org \in Orgs, site \in {"here"},
       doc_site \in Sites, version \in Versions :
        \E order \in Orders(triggers[pk].groups) :
            import_triggers([version |-> version, site |-> doc_site,
                             triggers |-> <<as_json(triggers, groups, pk, order)>>],
                            org, site, pk)

FindAndHandle ==
    \E text \in Texts, contact \in ContactIds, created_on \in 1..now :
        find_and_handle(text, contact, created_on) /\ CountsCapped

FindFlowForInboundCall ==
    \E contact \in ContactIds : find_flow_for_inbound_call(contact) /\ CountsCapped

CatchTriggers ==
    \E contact \in {"c1", "c5"},
       trigger_type \in {MISSED_CALL_TRIGGER, CATCH_ALL_TRIGGER, FOLLOW_TRIGGER},
       channel_id \in {NoChannel, 1, 2} :
        catch_triggers(contact, trigger_type, channel_id)

Fire == \E pk \in Pks(triggers) : fire(pk) /\ CountsCapped

\* the bulk actions and the import
Next ==
    \/ Archive
    \/ Restore
    \/ ImportCrafted
    \/ ImportExported

Spec == Init /\ [][Next]_vars

\* imports of documents written by hand, of every version, into tables with
\* archived triggers
NextImport ==
    \/ Archive
    \/ ImportCrafted

SpecImport == Init /\ [][NextImport]_vars

\* archive and restore of missed call and catch all triggers that fire() stamps
\* as the clock advances
NextLatest ==
    \/ Tick
    \/ Fire
    \/ Archive
    \/ Restore

SpecLatest == InitLatest /\ [][NextLatest]_vars

\* the dispatch entry points
NextDispatch ==
    \/ Archive
    \/ FindAndHandle
    \/ FindFlowForInboundCall
    \/ CatchTriggers
    \/ Fire

SpecDispatch == InitDispatch /\ [][NextDispatch]_vars

(* ------------------------------ two orgs -------------------------------- *)
\* triggers of o1 and of o2 with the same type and keyword
IsolationSeeds ==
    {NewTrigger("o1", KEYWORD_TRIGGER, <<"j">>, "f1", {}, {}, NoChannel, TRUE, 1),
     NewTrigger("o2", KEYWORD_TRIGGER, <<"j">>, "f4", {}, {}, NoChannel, TRUE, 1),
     NewTrigger("o1", MISSED_CALL_TRIGGER, NoKeyword, "f1", {}, {}, NoChannel, TRUE, 1),
     NewTrigger("o2", MISSED_CALL_TRIGGER, NoKeyword, "f4", {}, {}, NoChannel, TRUE, 1),
     NewTrigger("o1", INBOUND_CALL_TRIGGER, NoKeyword, "f1", {}, {}, NoChannel, TRUE, 1),
     NewTrigger("o2", INBOUND_CALL_TRIGGER, NoKeyword, "f4", {}, {}, NoChannel, TRUE, 1)}

InitIsolation == InitWith(IsolationSeeds, MaxInit)

\* a restore of triggers of one org
RestoreOfOrg ==
    \E org \in Orgs :
        \E ids \in SUBSET {pk \in Pks(triggers) : triggers[pk].org = org} :
            apply_action_restore(ids)

\* messages and calls of contacts of both orgs
IsolationFindAndHandle ==
    \E text \in {<<"J">>}, contact \in {"c1", "c5"} :
        find_and_handle(text, contact, now) /\ CountsCapped

IsolationFindFlowForInboundCall ==
    \E contact \in {"c1", "c5"} : find_flow_for_inbound_call(contact) /\ CountsCapped

IsolationCatchTriggers ==
    \E contact \in {"c1", "c5"} : catch_triggers(contact, MISSED_CALL_TRIGGER, NoChannel)

NextIsolation ==
    \/ Archive
    \/ RestoreOfOrg
    \/ IsolationFindAndHandle
    \/ IsolationFindFlowForInboundCall
    \/ IsolationCatchTriggers

SpecIsolation == InitIsolation /\ [][NextIsolation]_vars

(* --------------------------- successive fires --------------------------- *)
\* the rows fired several times in a row: a Keyword trigger a message of c1
\* or c4 matches and fire() broadcasts to c1, an InboundCall trigger
StatsSeeds ==
    {NewTrigger("o1", KEYWORD_TRIGGER, <<"j">>, "f1", {}, {"c1"}, NoChannel, TRUE, 1),
     NewTrigger("o1", INBOUND_CALL_TRIGGER, NoKeyword, "f1", {}, {}, NoChannel, TRUE, 1)}

InitStats == InitWith(StatsSeeds, MaxInit)

FiresCapped == \A pk \in Pks(triggers') : triggers'[pk].trigger_count <= MaxFires

\* a message handled at `now` that was created then or earlier
StatsFindAndHandle ==
    \E text \in {<<"J">>, <<"?">>}, contact \in {"c1", "c4"}, created_on \in 1..now :
        find_and_handle(text, contact, created_on) /\ FiresCapped

StatsFindFlowForInboundCall ==
    \E contact \in {"c1"} : find_flow_for_inbound_call(contact) /\ FiresCapped

StatsFire == \E pk \in Pks(triggers) : fire(pk) /\ FiresCapped

NextStats ==
    \/ Tick
    \/ StatsFindAndHandle
    \/ StatsFindFlowForInboundCall
    \/ StatsFire

SpecStats == InitStats /\ [][NextStats]_vars

(* ----------------------- concurrent restore calls ----------------------- *)
\* the calls that run at the same time, each in its own process, with no lock
\* and no transaction around them
Procs == {"p1", "p2"}

\* Keyword triggers to restore: archived ones with keywords "j" and "J", one
\* that is not archived, one of the other org
RestoreRaceSeeds ==
    {[NewTrigger("o1", KEYWORD_TRIGGER, <<"j">>, "f1", {}, {}, NoChannel, TRUE, 1)
        EXCEPT !.is_archived = TRUE],
     [NewTrigger("o1", KEYWORD_TRIGGER, <<"J">>, "f1", {}, {}, NoChannel, TRUE, 1)
        EXCEPT !.is_archived = TRUE],
     NewTrigger("o1", KEYWORD_TRIGGER, <<"j">>, "f1", {}, {}, NoChannel, TRUE, 1),
     [NewTrigger("o2", KEYWORD_TRIGGER, <<"j">>, "f4", {}, {}, NoChannel, TRUE, 1)
        EXCEPT !.is_archived = TRUE]}

\* each call is given a queryset of one or two triggers
InitRestoreRace ==
    /\ triggers \in SeqsUpTo(RestoreRaceSeeds, MaxTriggers)
    /\ Len(triggers) >= 2
    /\ groups = InitGroups
    /\ now = 1
    /\ last = NoReport
    /\ pc = [p \in Procs |-> "start"]
    /\ local \in [Procs -> {[ids |-> ids, todo |-> << >>, objs |-> << >>,
                             before |-> {pk \in ids : triggers[pk].is_archived}] :
                                ids \in {S \in SUBSET Pks(triggers) : Cardinality(S) \in 1..2}}]

\* line 264: the for statement fetches remaining_triggers; the rows stay in
\* memory as fetched
RestoreFetch(p) ==
    /\ pc[p] = "start"
    /\ LET ids == local[p].ids
           remaining == (ids \ OfType(triggers, ids, MISSED_CALL_TRIGGER))
                            \ OfType(triggers, ids, CATCH_ALL_TRIGGER)
       IN  \E order \in Orders(remaining) :
            /\ local' = [local EXCEPT ![p].todo = order, ![p].objs = triggers]
            /\ pc' = [pc EXCEPT ![p] = IF Len(order) = 0 THEN "latest" ELSE "archive"]
    /\ UNCHANGED <<triggers, groups, now, last>>

\* lines 266-270: the update of same_keyword_triggers
RestoreArchiveSameKeyword(p) ==
    /\ pc[p] = "archive"
    /\ LET obj == local[p].objs[Head(local[p].todo)]
       IN  triggers' = IF obj.keyword # NoKeyword
                       THEN UpdateArchived(triggers, SameKeywordTriggers(triggers, obj))
                       ELSE triggers
    /\ pc' = [pc EXCEPT ![p] = "save"]
    /\ UNCHANGED <<groups, now, last, local>>

\* lines 272-273: trigger.is_archived = False; trigger.save()
RestoreSave(p) ==
    /\ pc[p] = "save"
    /\ LET pk == Head(local[p].todo)
       IN  triggers' = Save(triggers, pk, [local[p].objs[pk] EXCEPT !.is_archived = FALSE])
    /\ local' = [local EXCEPT ![p].todo = Tail(local[p].todo)]
    /\ pc' = [pc EXCEPT ![p] = IF Len(local[p].todo) = 1 THEN "latest" ELSE "archive"]
    /\ UNCHANGED <<groups, now, last>>

\* lines 275-291: the MissedCall and the CatchAll triggers of the queryset,
\* then the return
RestoreLatestAndReturn(p) ==
    /\ pc[p] = "latest"
    /\ LET ids == local[p].ids
           m_ids == OfType(triggers, ids, MISSED_CALL_TRIGGER)
           c_ids == OfType(triggers, ids, CATCH_ALL_TRIGGER)
       IN  \E m \in IF m_ids = {} THEN {0} ELSE FirstOrdered(triggers, m_ids) :
            LET db2 == RestoreLatest(triggers, m_ids, MISSED_CALL_TRIGGER, m)
            IN  \E c \in IF c_ids = {} THEN {0} ELSE FirstOrdered(db2, c_ids) :
                    triggers' = RestoreLatest(db2, c_ids, CATCH_ALL_TRIGGER, c)
    /\ pc' = [pc EXCEPT ![p] = "done"]
    /\ UNCHANGED <<groups, now, last, local>>

NextRestoreRace ==
    \/ \E p \in Procs : RestoreFetch(p)
    \/ \E p \in Procs : RestoreArchiveSameKeyword(p)
    \/ \E p \in Procs : RestoreSave(p)
    \/ \E p \in Procs : RestoreLatestAndReturn(p)

SpecRestoreRace == InitRestoreRace /\ [][NextRestoreRace]_vars

(* -------------------- restore calls while messages fire ------------------ *)
\* a Keyword trigger 'j' that messages of c1 match, archived or not
RestoreFireSeeds ==
    {[NewTrigger("o1", KEYWORD_TRIGGER, <<"j">>, "f1", {}, {}, NoChannel, TRUE, 1)
        EXCEPT !.is_archived = TRUE],
     NewTrigger("o1", KEYWORD_TRIGGER, <<"j">>, "f1", {}, {}, NoChannel, TRUE, 1)}

\* each restore call is given one trigger
InitRestoreFire ==
    /\ triggers \in SeqsUpTo(RestoreFireSeeds, MaxInit)
    /\ Len(triggers) >= 1
    /\ groups = InitGroups
    /\ now = 1
    /\ last = NoReport
    /\ pc = [p \in Procs |-> "start"]
    /\ local \in [Procs -> {[ids |-> {pk}, todo |-> << >>, objs |-> << >>,
                             before |-> {x \in {pk} : triggers[x].is_archived}] :
                                pk \in Pks(triggers)}]

\* a message 'J' of c1 is handled, in one piece, between the steps of the
\* restore calls
MessageFires == find_and_handle(<<"J">>, "c1", now) /\ FiresCapped

NextRestoreFire ==
    \/ \E p \in Procs : RestoreFetch(p)
    \/ \E p \in Procs : RestoreArchiveSameKeyword(p)
    \/ \E p \in Procs : RestoreSave(p)
    \/ \E p \in Procs : RestoreLatestAndReturn(p)
    \/ MessageFires

SpecRestoreFire == InitRestoreFire /\ [][NextRestoreFire]_vars

(* ------------------------- concurrent fire calls ------------------------- *)
\* each call fires one trigger; before: its trigger_count when the calls begin
InitFireRace ==
    /\ triggers \in SeqsUpTo(Seeds, MaxInit)
    /\ groups = InitGroups
    /\ now = 1
    /\ last = NoReport
    /\ pc = [p \in Procs |-> "start"]
    /\ local \in [Procs -> {[pk |-> pk, obj |-> triggers[pk], fired |-> FALSE,
                             before |-> triggers[pk].trigger_count] : pk \in Pks(triggers)}]

\* the caller's Trigger.objects.get(): the row is read into memory
FireLoad(p) ==
    /\ pc[p] = "start"
    /\ local' = [local EXCEPT ![p].obj = triggers[local[p].pk]]
    /\ pc' = [pc EXCEPT ![p] = "loaded"]
    /\ UNCHANGED <<triggers, groups, now, last>>

\* lines 294-306: the guards, then last_triggered and trigger_count are set on
\* the object in memory
FireIncrement(p) ==
    /\ pc[p] = "loaded"
    /\ IF Fires(local[p].obj)
       THEN /\ local' = [local EXCEPT ![p].obj =
                            [@ EXCEPT !.last_triggered = now,
                                      !.trigger_count = @ + 1]]
            /\ pc' = [pc EXCEPT ![p] = "save"]
       ELSE /\ pc' = [pc EXCEPT ![p] = "done"]
            /\ UNCHANGED local
    /\ UNCHANGED <<triggers, groups, now, last>>

\* lines 307-309: self.save(), then the flow is started
FireSave(p) ==
    /\ pc[p] = "save"
    /\ triggers' = Save(triggers, local[p].pk, local[p].obj)
    /\ local' = [local EXCEPT ![p].fired = TRUE]
    /\ pc' = [pc EXCEPT ![p] = "done"]
    /\ UNCHANGED <<groups, now, last>>

NextFireRace ==
    \/ Tick
    \/ \E p \in Procs : FireLoad(p)
    \/ \E p \in Procs : FireIncrement(p)
    \/ \E p \in Procs : FireSave(p)

SpecFireRace == InitFireRace /\ [][NextFireRace]_vars

(* ------------------ archive calls while triggers fire -------------------- *)
\* apply_action_archive is one UPDATE statement: it runs in one piece between
\* the steps of the fire calls
NextFireArchive ==
    \/ \E p \in Procs : FireLoad(p)
    \/ \E p \in Procs : FireIncrement(p)
    \/ \E p \in Procs : FireSave(p)
    \/ Archive

SpecFireArchive == InitFireRace /\ [][NextFireArchive]_vars

(* -------------------- find_and_handle, statement by statement ----------- *)
\* one call at a time
Handlers == {"p1"}

\* a call before its message is read
NoCall ==
    [contact |-> NoContact, created_on |-> NoTime, pk |-> 0, obj |-> << >>,
     before |-> << >>, ret |-> "none", started |-> {}]

InitHandle ==
    /\ triggers \in SeqsUpTo(DispatchSeeds, MaxInit)
    /\ groups = InitGroups
    /\ now = 1
    /\ last = NoReport
    /\ pc = [p \in Handlers |-> "start"]
    /\ local = [p \in Handlers |-> NoCall]

\* lines 182-215: the keyword, the active run, the two queries and
\* trigger = matching[0]; before is the Trigger table as the call found it
HandleMatch(p) ==
    /\ pc[p] = "start"
    /\ \E text \in Texts, contact \in ContactIds, created_on \in 1..now :
        LET keyword == FirstKeyword(text)
            matching == Matching(triggers, groups,
                                 KeywordCandidates(triggers, Contacts[contact].org, keyword),
                                 Contacts[contact].groups)
            call == [NoCall EXCEPT !.contact = contact, !.created_on = created_on,
                                   !.before = triggers]
        IN  IF keyword = NoKeyword \/ IgnoresTriggers(contact) \/ matching = {}
            THEN /\ local' = [local EXCEPT ![p] = [call EXCEPT !.ret = "False"]]
                 /\ pc' = [pc EXCEPT ![p] = "done"]
            ELSE \E pk \in matching :
                 /\ local' = [local EXCEPT ![p] = [call EXCEPT !.pk = pk, !.obj = triggers[pk]]]
                 /\ pc' = [pc EXCEPT ![p] = "stamp"]
    /\ UNCHANGED <<triggers, groups, now, last>>

\* lines 217-219
HandleStamp(p) ==
    /\ pc[p] = "stamp"
    /\ triggers' = Stamp(triggers, local[p].pk, local[p].obj, local[p].created_on)
    /\ pc' = [pc EXCEPT ![p] = "start_flow"]
    /\ UNCHANGED <<groups, now, last, local>>

\* lines 224-226: trigger.flow.start([], [contact], ...) returns, and
\* find_and_handle returns True, or raises, and so does find_and_handle
HandleStartFlow(p) ==
    /\ pc[p] = "start_flow"
    /\ \/ local' = [local EXCEPT ![p].started = {<<local[p].obj.flow, local[p].contact>>},
                                 ![p].ret = "True"]
       \/ local' = [local EXCEPT ![p].ret = "raise"]
    /\ pc' = [pc EXCEPT ![p] = "done"]
    /\ UNCHANGED <<triggers, groups, now, last>>

NextHandle ==
    \/ \E p \in Handlers : HandleMatch(p)
    \/ \E p \in Handlers : HandleStamp(p)
    \/ \E p \in Handlers : HandleStartFlow(p)

SpecHandle == InitHandle /\ [][NextHandle]_vars

(* ======================================================================= *)
(* Properties                                                              *)
(* ======================================================================= *)
\* the active, non-archived Keyword triggers of org with the keyword
ActiveKeyword(org, keyword) ==
    {pk \in Pks(triggers) : /\ triggers[pk].org = org
                            /\ triggers[pk].trigger_type = KEYWORD_TRIGGER
                            /\ triggers[pk].keyword = keyword
                            /\ triggers[pk].is_active
                            /\ ~triggers[pk].is_archived}

\* the active, non-archived triggers of org of the type
ActiveOfType(org, trigger_type) ==
    {pk \in Pks(triggers) : /\ triggers[pk].org = org
                            /\ triggers[pk].trigger_type = trigger_type
                            /\ triggers[pk].is_active
                            /\ ~triggers[pk].is_archived}

\* C1, as claimed: right after a restore whose input holds a trigger of org O
\* with keyword K, O has at most one active, non-archived Keyword trigger with
\* keyword K
C1_Original ==
    last.op = "restore" =>
        \A pk \in last.ids :
            triggers[pk].keyword # NoKeyword =>
                Cardinality(ActiveKeyword(triggers[pk].org, triggers[pk].keyword)) <= 1

\* C1, amended: right after a restore whose input holds a trigger of org O with
\* keyword K that is neither a MissedCall nor a CatchAll trigger, O has at most
\* one active, non-archived Keyword trigger with keyword K
C1_KeywordExclusiveAfterRestore ==
    last.op = "restore" =>
        \A pk \in last.ids :
            (/\ triggers[pk].keyword # NoKeyword
             /\ triggers[pk].trigger_type \notin {MISSED_CALL_TRIGGER, CATCH_ALL_TRIGGER}) =>
                Cardinality(ActiveKeyword(triggers[pk].org, triggers[pk].keyword)) <= 1

\* a restore was given two active Keyword triggers of one org with one keyword
\* and left exactly one of them un-archived
C1_Witness ==
    /\ last.op = "restore"
    /\ \E a, b \in last.ids :
        /\ a # b
        /\ triggers[a].org = triggers[b].org
        /\ triggers[a].keyword = triggers[b].keyword
        /\ triggers[a].keyword # NoKeyword
        /\ triggers[a].trigger_type = KEYWORD_TRIGGER
        /\ triggers[b].trigger_type = KEYWORD_TRIGGER
        /\ triggers[a].is_active /\ triggers[b].is_active
        /\ ~triggers[a].is_archived /\ triggers[b].is_archived

\* C2, as claimed: after any restore every org has at most one active,
\* non-archived MissedCall trigger and at most one active, non-archived
\* CatchAll trigger
C2_Original ==
    last.op = "restore" =>
        \A org \in Orgs :
            /\ Cardinality(ActiveOfType(org, MISSED_CALL_TRIGGER)) <= 1
            /\ Cardinality(ActiveOfType(org, CATCH_ALL_TRIGGER)) <= 1

\* C9, as claimed: after an import un-archived or created a Keyword trigger
\* with keyword K in org O, no other Keyword trigger of O with keyword K is
\* active and non-archived
C9_Original ==
    (last.op = "import" /\ last.ret = "ok") =>
        \A pk \in last.before \cup last.created :
            (triggers[pk].trigger_type = KEYWORD_TRIGGER /\ triggers[pk].keyword # NoKeyword) =>
                ActiveKeyword(triggers[pk].org, triggers[pk].keyword) \subseteq {pk}

\* the triggers of the table an import of as_json(t) may find: those of t's
\* org and type whose keyword equals t's up to case (when t has one) and that
\* share a group with t (when t has groups)
C10_Found(t) ==
    {pk \in Pks(triggers) :
        /\ triggers[pk].org = triggers[t].org
        /\ triggers[pk].trigger_type = triggers[t].trigger_type
        /\ (triggers[t].keyword # NoKeyword =>
                /\ triggers[pk].keyword # NoKeyword
                /\ Lower(triggers[pk].keyword) = Lower(triggers[t].keyword))
        /\ (triggers[t].groups # {} => triggers[pk].groups \cap triggers[t].groups # {})}

\* the step is an import, into t's org and with a matching site, of the
\* document made of as_json(t)
C10_RoundTrip ==
    /\ last'.op = "import"
    /\ last'.ret = "ok"
    /\ last'.exported # 0
    /\ last'.site_matches

\* C10, as claimed: the round trip creates no trigger and t itself is the
\* record that is un-archived and repointed
C10_Original ==
    [][C10_RoundTrip =>
        /\ Len(triggers') = Len(triggers)
        /\ last'.ids = {last'.exported}
        /\ ~triggers'[last'.exported].is_archived
        /\ triggers'[last'.exported].flow = triggers[last'.exported].flow]_vars

\* C10, amended: the round trip creates no trigger, and the record that is
\* un-archived and repointed to t's flow is the lowest-pk trigger of t's org
\* and type with t's keyword up to case and a group in common with t: t
\* itself when no earlier trigger matches
C10_RoundTripUpdatesFirstMatch ==
    [][C10_RoundTrip =>
        LET t == last'.exported
            first == Min(C10_Found(t))
        IN  /\ Len(triggers') = Len(triggers)
            /\ t \in C10_Found(t)
            /\ last'.ids = {first}
            /\ ~triggers'[first].is_archived
            /\ triggers'[first].flow = triggers[t].flow
            /\ \A pk \in Pks(triggers) \ {first} : triggers'[pk] = triggers[pk]]_vars

\* an archived trigger with groups was exported and imported back with a
\* matching site, and is the record that was un-archived
C10_Witness ==
    /\ last.op = "import"
    /\ last.ret = "ok"
    /\ last.exported # 0
    /\ last.site_matches
    /\ last.ids = {last.exported}
    /\ last.before = {last.exported}
    /\ last.created = {}
    /\ triggers[last.exported].groups # {}
    /\ ~triggers[last.exported].is_archived

\* the MissedCall or CatchAll triggers a restore step is given
C8_Given(trigger_type) == {pk \in last'.ids : triggers[pk].trigger_type = trigger_type}

\* the step is a restore given two or more triggers of the type, all of one
\* org, archived and with last_triggered set
C8_Case(trigger_type) ==
    /\ last'.op = "restore"
    /\ now' = now
    /\ Cardinality(C8_Given(trigger_type)) >= 2
    /\ \A a, b \in C8_Given(trigger_type) : triggers[a].org = triggers[b].org
    /\ \A a \in C8_Given(trigger_type) :
        triggers[a].is_archived /\ triggers[a].last_triggered # NoTime

\* w has the latest last_triggered of the given triggers, and the latest
\* modified_on of those with that last_triggered
C8_Latest(w, trigger_type) ==
    \A o \in C8_Given(trigger_type) :
        \/ triggers[w].last_triggered > triggers[o].last_triggered
        \/ /\ triggers[w].last_triggered = triggers[o].last_triggered
           /\ triggers[w].modified_on >= triggers[o].modified_on

\* C8, as claimed: the latest of the given triggers ends non-archived and every
\* other trigger of the type in that org ends archived
C8_Original ==
    [][\A trigger_type \in {MISSED_CALL_TRIGGER, CATCH_ALL_TRIGGER} :
        C8_Case(trigger_type) =>
            \E w \in C8_Given(trigger_type) :
                /\ C8_Latest(w, trigger_type)
                /\ ~triggers'[w].is_archived
                /\ \A pk \in Pks(triggers) \ {w} :
                    (/\ triggers[pk].trigger_type = trigger_type
                     /\ triggers[pk].org = triggers[w].org) => triggers'[pk].is_archived]_vars

\* C8, amended: the latest of the given triggers ends non-archived and every
\* other active trigger of the type in that org ends archived
C8_LatestRestoredOthersArchived ==
    [][\A trigger_type \in {MISSED_CALL_TRIGGER, CATCH_ALL_TRIGGER} :
        C8_Case(trigger_type) =>
            \E w \in C8_Given(trigger_type) :
                /\ C8_Latest(w, trigger_type)
                /\ ~triggers'[w].is_archived
                /\ \A pk \in Pks(triggers) \ {w} :
                    (/\ triggers[pk].trigger_type = trigger_type
                     /\ triggers[pk].org = triggers[w].org
                     /\ triggers[pk].is_active) => triggers'[pk].is_archived]_vars

\* a restore was given two archived MissedCall triggers fired at different times: the
\* later fired is un-archived, the earlier fired is archived, and so is a third
\* active MissedCall trigger of the org that was not given
C8_Witness ==
    /\ last.op = "restore"
    /\ \E a, b \in last.before :
        /\ triggers[a].trigger_type = MISSED_CALL_TRIGGER
        /\ triggers[b].trigger_type = MISSED_CALL_TRIGGER
        /\ triggers[a].org = triggers[b].org
        /\ triggers[b].last_triggered # NoTime
        /\ triggers[a].last_triggered > triggers[b].last_triggered
        /\ ~triggers[a].is_archived
        /\ triggers[b].is_archived
        /\ \E c \in Pks(triggers) \ last.ids :
            /\ triggers[c].trigger_type = MISSED_CALL_TRIGGER
            /\ triggers[c].org = triggers[a].org
            /\ triggers[c].is_active
            /\ triggers[c].is_archived

\* C5, as claimed: a dispatch starts the flow of a trigger, or stamps it, only
\* if the trigger is active and not archived and its flow is active and not
\* archived
C5_Original ==
    last.op \in {"find_and_handle", "find_flow_for_inbound_call", "catch_triggers", "fire"} =>
        \A pk \in last.fired \cup {s[1] : s \in last.started} :
            /\ triggers[pk].is_active
            /\ ~triggers[pk].is_archived
            /\ Flows[triggers[pk].flow].is_active
            /\ ~Flows[triggers[pk].flow].is_archived

\* the triggers eligible for a keyword message of the org
C6_Eligible(org, keyword) ==
    {pk \in Pks(triggers) :
        /\ triggers[pk].org = org
        /\ triggers[pk].is_active
        /\ ~triggers[pk].is_archived
        /\ triggers[pk].keyword # NoKeyword
        /\ Lower(triggers[pk].keyword) = keyword
        /\ Flows[triggers[pk].flow].is_active
        /\ ~Flows[triggers[pk].flow].is_archived}

\* the eligible triggers that target a group of the contact
C6_GroupSpecific(contact, keyword) ==
    {pk \in C6_Eligible(Contacts[contact].org, keyword) :
        triggers[pk].groups \cap Contacts[contact].groups # {}}

\* C6: a keyword message whose contact is in a group targeted by an eligible
\* trigger for the keyword fires a trigger whose groups intersect the contact's
\* groups, when find_and_handle gets to matching (the contact's newest active
\* run does not ignore triggers); the trigger it fires has no groups only when
\* no eligible trigger targets a group of the contact
C6_GroupSpecificFirst ==
    (last.op = "find_and_handle" /\ last.keyword # NoKeyword) =>
        /\ (C6_GroupSpecific(last.contact, last.keyword) # {} /\ ~IgnoresTriggers(last.contact)) =>
                /\ last.fired # {}
                /\ last.fired \subseteq C6_GroupSpecific(last.contact, last.keyword)
        /\ \A pk \in last.fired :
                triggers[pk].groups = {} => C6_GroupSpecific(last.contact, last.keyword) = {}

\* a message fired a trigger targeting a group of its contact although an
\* eligible trigger without groups was created before it
C6_Witness ==
    /\ last.op = "find_and_handle"
    /\ \E pk \in last.fired :
        /\ triggers[pk].groups \cap Contacts[last.contact].groups # {}
        /\ \E o \in C6_Eligible(Contacts[last.contact].org, last.keyword) :
            o < pk /\ triggers[o].groups = {}

\* C7, as claimed: when the contact has an active, not completed run of a flow
\* with ignore_triggers, find_and_handle returns false, fires no trigger and
\* starts no flow
C7_Original ==
    (/\ last.op = "find_and_handle"
     /\ \E r \in DOMAIN FlowRuns :
            /\ FlowRuns[r].contact = last.contact
            /\ FlowRuns[r].is_active
            /\ ~FlowRuns[r].completed
            /\ Flows[FlowRuns[r].flow].ignore_triggers) =>
        /\ last.ret = "False"
        /\ last.fired = {}
        /\ last.started = {}

\* C6, as claimed: a keyword message whose contact is in a group targeted by an
\* eligible trigger for the keyword fires a trigger whose groups intersect the
\* contact's groups
C6_Original ==
    (/\ last.op = "find_and_handle"
     /\ last.keyword # NoKeyword
     /\ C6_GroupSpecific(last.contact, last.keyword) # {}) =>
        /\ last.fired # {}
        /\ last.fired \subseteq C6_GroupSpecific(last.contact, last.keyword)

\* C3, as claimed: once two concurrent restores, each of one archived Keyword
\* trigger, the two triggers different, of the same org and with the same
\* keyword, have both finished, the two triggers are not both active and
\* non-archived
C3_Original ==
    \A a, b \in Pks(triggers) :
        (/\ \A p \in Procs : pc[p] = "done"
         /\ local["p1"].ids = {a} /\ local["p1"].before = {a}
         /\ local["p2"].ids = {b} /\ local["p2"].before = {b}
         /\ a # b
         /\ triggers[a].trigger_type = KEYWORD_TRIGGER
         /\ triggers[b].trigger_type = KEYWORD_TRIGGER
         /\ triggers[a].org = triggers[b].org
         /\ triggers[a].keyword = triggers[b].keyword) =>
            ~(/\ triggers[a].is_active /\ ~triggers[a].is_archived
              /\ triggers[b].is_active /\ ~triggers[b].is_archived)

\* C4, as claimed: once the concurrent fire calls have finished, the
\* trigger_count of every trigger is higher than before by the number of calls
\* that fired it
C4_Original ==
    (\A p \in Procs : pc[p] = "done") =>
        \A p \in Procs :
            triggers[local[p].pk].trigger_count =
                local[p].before + Cardinality({q \in Procs : local[q].pk = local[p].pk /\ local[q].fired})

\* C11, as claimed: when a dispatch fires the trigger the previous dispatch
\* fired, the trigger_count of the trigger is 2 higher than before the two and
\* its last_triggered, the time of the second dispatch, is not earlier than the
\* time the first dispatch set
C11_Original ==
    [][\A pk \in Pks(triggers) :
        (last.fired = {pk} /\ last'.fired = {pk} /\ triggers'[pk] # triggers[pk]) =>
            /\ triggers'[pk].trigger_count = last.count + 2
            /\ triggers'[pk].last_triggered # NoTime
            /\ triggers'[pk].last_triggered >= triggers[pk].last_triggered]_vars

\* C12, as claimed: every trigger a keyword message stamps or starts has
\* trigger_type Keyword
C12_Original ==
    last.op = "find_and_handle" =>
        \A pk \in last.fired \cup {s[1] : s \in last.started} :
            triggers[pk].trigger_type = KEYWORD_TRIGGER

\* C13, as claimed: catch_triggers with a channel_id starts the flows of the
\* active, non-archived triggers of the type whose channel is unset or is
\* channel_id, and of no other trigger
C13_Original ==
    (last.op = "catch_triggers" /\ last.channel # NoChannel) =>
        {s[1] : s \in last.started} =
            {pk \in Pks(triggers) :
                /\ triggers[pk].org = Contacts[last.contact].org
                /\ triggers[pk].trigger_type = last.trigger_type
                /\ triggers[pk].is_active
                /\ ~triggers[pk].is_archived
                /\ triggers[pk].channel \in {NoChannel, last.channel}}

\* C14, as claimed: no step lowers the trigger_count of a trigger
C14_Original ==
    [][\A pk \in Pks(triggers) :
        triggers'[pk].trigger_count >= triggers[pk].trigger_count]_vars

\* C15: a dispatch that does not fire returns its no-match value, changes no
\* trigger and starts no flow: find_and_handle on a text without a word
\* returns False, find_and_handle returning False and
\* find_flow_for_inbound_call returning None leave the triggers as they were,
\* and fire() on a trigger that is archived or inactive, whose org has no
\* channel, or that has neither groups nor contacts returns None or False and
\* leaves the triggers as they were
C15_NoFireNoChange ==
    [][/\ (last'.op = "find_and_handle" /\ last'.keyword = NoKeyword) => last'.ret = "False"
       /\ (last'.op = "find_and_handle" /\ last'.ret = "False") =>
            triggers' = triggers /\ last'.fired = {} /\ last'.started = {}
       /\ (last'.op = "find_flow_for_inbound_call" /\ last'.ret = "None") =>
            triggers' = triggers /\ last'.fired = {} /\ last'.started = {}
       /\ \A pk \in Pks(triggers) :
            (/\ last'.op = "fire"
             /\ last'.ids = {pk}
             /\ \/ triggers[pk].is_archived
                \/ ~triggers[pk].is_active
                \/ OrgChannels[triggers[pk].org] = {}
                \/ triggers[pk].groups = {} /\ triggers[pk].contacts = {}) =>
                /\ last'.ret \in {"None", "False"}
                /\ triggers' = triggers
                /\ last'.fired = {}
                /\ last'.started = {}]_vars

\* fire() was called on an active, non-archived trigger with neither groups nor
\* contacts in an org with channels, and returned False without stamping it
C15_Witness ==
    /\ last.op = "fire"
    /\ last.ret = "False"
    /\ \E pk \in last.ids :
        /\ triggers[pk].is_active
        /\ ~triggers[pk].is_archived
        /\ OrgChannels[triggers[pk].org] # {}
        /\ triggers[pk].groups = {} /\ triggers[pk].contacts = {}
        /\ triggers[pk].trigger_count = 0

\* C16: an import of a document whose version is below
\* EARLIEST_IMPORT_VERSION, or that has none, raises the version error and
\* leaves every trigger and every group as it was: nothing is created,
\* un-archived or reactivated
C16_UnknownVersionNoChange ==
    [][\A doc \in CraftedDocs, org \in Orgs, site \in {NoSite, "here"} :
        (doc.version < EARLIEST_IMPORT_VERSION /\ import_triggers(doc, org, site, 0)) =>
            /\ last'.ret = "Unknown version"
            /\ last'.ids = {}
            /\ triggers' = triggers
            /\ groups' = groups]_vars

\* an import raised the version error while a trigger is archived and a group
\* inactive, both of which stay so
C16_Witness ==
    /\ last.op = "import"
    /\ last.ret = "Unknown version"
    /\ \E pk \in Pks(triggers) : triggers[pk].is_archived
    /\ \E g \in Pks(groups) : ~groups[g].is_active

\* the trigger the call chose has trigger_count one higher than the call found
\* it with and last_triggered set to the message's created_on, and every other
\* trigger is as the call found it
C17_Stamped(p) ==
    /\ Len(triggers) = Len(local[p].before)
    /\ triggers[local[p].pk].trigger_count = local[p].before[local[p].pk].trigger_count + 1
    /\ triggers[local[p].pk].last_triggered = local[p].created_on
    /\ \A o \in Pks(triggers) \ {local[p].pk} : triggers[o] = local[p].before[o]

\* C17: a find_and_handle call that returns True has stamped exactly one
\* trigger and started exactly one flow, the flow of that trigger, for the
\* contact of the message; the trigger is stamped in the table before the flow
\* start is called, and stays stamped when the flow start raises
C17_StampThenStart ==
    \A p \in Handlers :
        /\ pc[p] = "start_flow" => C17_Stamped(p) /\ local[p].started = {}
        /\ (pc[p] = "done" /\ local[p].ret = "True") =>
                /\ C17_Stamped(p)
                /\ local[p].started = {<<triggers[local[p].pk].flow, local[p].contact>>}
        /\ (pc[p] = "done" /\ local[p].ret = "raise") =>
                C17_Stamped(p) /\ local[p].started = {}

\* the flow start of a call raised, and the trigger the call chose among two
\* is stamped
C17_Witness ==
    \E p \in Handlers :
        /\ pc[p] = "done"
        /\ local[p].ret = "raise"
        /\ Len(triggers) = 2
        /\ triggers[local[p].pk].trigger_count = 1

\* C18, as claimed: the save of a fire leaves is_archived of the trigger as it
\* is in the table, so a trigger archived while the fire was in progress is
\* still archived when the fire has finished
C18_Original ==
    [][\A p \in Procs :
        (pc[p] = "save" /\ pc'[p] = "done") =>
            triggers'[local[p].pk].is_archived = triggers[local[p].pk].is_archived]_vars

\* the org a restore or a dispatch step is run for: the org of the triggers
\* given, the org of the contact
C19_Org ==
    IF last'.op = "restore"
    THEN {triggers[pk].org : pk \in last'.ids}
    ELSE {Contacts[last'.contact].org}

\* C19: a restore of triggers of one org, and a find_and_handle,
\* catch_triggers or find_flow_for_inbound_call for a contact of one org,
\* leave is_archived, trigger_count and last_triggered of every trigger of
\* another org as they were and start the flow of no such trigger
C19_OrgIsolation ==
    [][(/\ last'.op \in {"restore", "find_and_handle", "catch_triggers",
                         "find_flow_for_inbound_call"}
        /\ Cardinality(C19_Org) = 1) =>
            \A pk \in Pks(triggers) :
                triggers[pk].org \notin C19_Org =>
                    /\ triggers'[pk].is_archived = triggers[pk].is_archived
                    /\ triggers'[pk].trigger_count = triggers[pk].trigger_count
                    /\ triggers'[pk].last_triggered = triggers[pk].last_triggered
                    /\ pk \notin last'.fired
                    /\ pk \notin {s[1] : s \in last'.started}]_vars

\* a restore un-archived a Keyword trigger of one org while a Keyword trigger
\* of another org with the same keyword is active and not archived
C19_Witness ==
    /\ last.op = "restore"
    /\ \E a \in last.before, b \in Pks(triggers) :
        /\ triggers[a].trigger_type = KEYWORD_TRIGGER
        /\ triggers[b].trigger_type = KEYWORD_TRIGGER
        /\ triggers[a].keyword = triggers[b].keyword
        /\ triggers[a].org # triggers[b].org
        /\ ~triggers[a].is_archived
        /\ triggers[b].is_active /\ ~triggers[b].is_archived

====
